---- MODULE Spec2Model ----
(***************************************************************************)
(* Sustainability scoring engine of the Sustainable Marketing Evaluator,   *)
(* in its three variants: app.py (form, mock recommendations), ai.py       *)
(* (form, AI helpers) and chatrobot.py (chat flow).                        *)
(*                                                                         *)
(* Units.  Python computes on floats; the model computes on exact decimal  *)
(* fixed point:                                                            *)
(*   distance   tenths of a kilometre          (Distance10)                *)
(*   factor     hundredths of kg CO2 per km per person                    *)
(*   carbon     thousandths of a kilogram      (500 kg = 500000)           *)
(*   rate       a fraction [num, den] of percent (70% = 70/1)              *)
(* round(x, 1) rounds to the nearest tenth; where the decimal value lies   *)
(* exactly half-way the result depends on the binary double that holds it, *)
(* so the direction is an input of the run (fp_carbon_up, fp_rate_up).     *)
(***************************************************************************)
EXTENDS Integers, Sequences, FiniteSets, TLC

VARIABLES variant, campaign_data, fp_carbon_up, fp_rate_up,
          pc, error, total_carbon, material_metrics, scores, total_score,
          staff_group_count, material_count,
          OPENAI_AVAILABLE, current_step, waiting_for_input, conversation,
          report_text

\* The rows the forms of app.py and ai.py display.
form_vars == <<staff_group_count, material_count>>

\* The session state of the chat flow of chatrobot.py, and whether its AI
\* client could be built.
chat_vars == <<OPENAI_AVAILABLE, current_step, waiting_for_input, conversation,
               report_text>>

vars == <<variant, campaign_data, fp_carbon_up, fp_rate_up,
          pc, error, total_carbon, material_metrics, scores, total_score,
          form_vars, chat_vars>>

\* Longest list of travel groups / of materials a snapshot holds.
MaxGroups == 2
MaxMaterials == 2

Variants == {"app", "ai", "chat"}

---------------------------------------------------------------------------
\* Static reference tables

EMISSION_FACTORS_app ==
    ("Air" :> 25) @@ ("Train" :> 6) @@ ("Car" :> 17) @@ ("Bus" :> 8) @@ ("Other" :> 12)

EMISSION_FACTORS_ai ==
    ("Air - Economy" :> 25) @@ ("Air - Premium Economy" :> 35) @@
    ("Air - Business" :> 60) @@ ("Air - First Class" :> 90) @@
    ("Train" :> 6) @@ ("Car" :> 17) @@ ("Bus" :> 8) @@ ("Other" :> 12)

EMISSION_FACTORS_chat ==
    ("Air - Economy" :> 25) @@ ("Air - Premium Economy" :> 35) @@
    ("Air - Business" :> 60) @@ ("Air - First Class" :> 90) @@
    ("Train" :> 6) @@ ("Car" :> 17) @@ ("Bus" :> 8) @@ ("Other" :> 12)

\* The predefined materials that carry a weight; the table is the same in the
\* three files.  Its last entry, {"name": "Other (Custom)"}, has no weight and
\* is never looked up: a material of that type takes the custom branch.
PREDEFINED_MATERIALS ==
    ("Brochures" :> [weight |-> 3, recyclable |-> TRUE]) @@
    ("Flyers" :> [weight |-> 3, recyclable |-> TRUE]) @@
    ("Plastic Tote Bags" :> [weight |-> 8, recyclable |-> FALSE]) @@
    ("Cotton Tote Bags" :> [weight |-> 2, recyclable |-> TRUE]) @@
    ("Metal Badges" :> [weight |-> 5, recyclable |-> TRUE])

---------------------------------------------------------------------------
\* Results of a computation that may raise: err = "" when it returned val.

Ok(v) == [err |-> "", val |-> v]
Raise(e) == [err |-> e, val |-> 0]

\* round(x, 1) on a value in thousandths: the nearest multiple of 100, and on
\* an exact half the side the binary double falls on.
RoundTenth(milli, up) ==
    LET q == milli \div 100
        r == milli % 100
    IN  IF r < 50 THEN q * 100
        ELSE IF r > 50 THEN (q + 1) * 100
        ELSE IF up THEN (q + 1) * 100 ELSE q * 100

---------------------------------------------------------------------------
\* Travel emission calculator

\* carbon_loop_app with the factor looked up before the distance is tested.
RECURSIVE carbon_loop_app_lookup_first(_, _)
carbon_loop_app_lookup_first(groups, total) ==
    IF groups = <<>> THEN Ok(total)
    ELSE LET group == Head(groups) IN
         IF group.TravelMode \notin DOMAIN EMISSION_FACTORS_app
         THEN Raise("KeyError")
         ELSE IF group.Distance10 <= 0
         THEN carbon_loop_app_lookup_first(Tail(groups), total)
         ELSE carbon_loop_app_lookup_first(Tail(groups),
                  total + group.Distance10 * EMISSION_FACTORS_app[group.TravelMode]
                          * group.StaffCount)

RECURSIVE carbon_loop_app(_, _)
carbon_loop_app(groups, total) ==
    IF groups = <<>> THEN Ok(total)
    ELSE LET group == Head(groups) IN
         IF group.Distance10 <= 0
         THEN carbon_loop_app(Tail(groups), total)
         ELSE IF group.TravelMode \notin DOMAIN EMISSION_FACTORS_app
         THEN Raise("KeyError")
         ELSE carbon_loop_app(Tail(groups),
                  total + group.Distance10 * EMISSION_FACTORS_app[group.TravelMode]
                          * group.StaffCount)

calculate_total_carbon(groups) == carbon_loop_app(groups, 0)

\* carbon_loop_ai with the staff count left out of a group's emissions.
RECURSIVE carbon_loop_ai_per_group(_, _)
carbon_loop_ai_per_group(groups, total_emission) ==
    IF groups = <<>> THEN total_emission
    ELSE LET group == Head(groups)
             distance == group.Distance10
             travel_mode == group.TravelMode
             emission_factor == IF travel_mode \in DOMAIN EMISSION_FACTORS_ai
                                THEN EMISSION_FACTORS_ai[travel_mode] ELSE 12
         IN  IF distance <= 0
             THEN carbon_loop_ai_per_group(Tail(groups), total_emission)
             ELSE carbon_loop_ai_per_group(Tail(groups),
                      total_emission + distance * emission_factor)

RECURSIVE carbon_loop_ai(_, _)
carbon_loop_ai(groups, total_emission) ==
    IF groups = <<>> THEN total_emission
    ELSE LET group == Head(groups)
             distance == group.Distance10
             travel_mode == group.TravelMode
             emission_factor == IF travel_mode \in DOMAIN EMISSION_FACTORS_ai
                                THEN EMISSION_FACTORS_ai[travel_mode] ELSE 12
         IN  IF distance <= 0
             THEN carbon_loop_ai(Tail(groups), total_emission)
             ELSE carbon_loop_ai(Tail(groups),
                      total_emission + distance * emission_factor * group.StaffCount)

ai_calculate_total_carbon_emission(groups, up) ==
    Ok(RoundTenth(carbon_loop_ai(groups, 0), up))

\* carbon_loop_chat with a group's emissions divided by its staff count.
RECURSIVE carbon_loop_chat_per_person(_, _)
carbon_loop_chat_per_person(groups, total_emission) ==
    IF groups = <<>> THEN total_emission
    ELSE LET group == Head(groups)
             distance == group.Distance10
             travel_mode == group.TravelMode
             emission_factor == IF travel_mode \in DOMAIN EMISSION_FACTORS_chat
                                THEN EMISSION_FACTORS_chat[travel_mode] ELSE 12
         IN  IF distance <= 0
             THEN carbon_loop_chat_per_person(Tail(groups), total_emission)
             ELSE carbon_loop_chat_per_person(Tail(groups),
                      total_emission + (distance * emission_factor) \div group.StaffCount)

RECURSIVE carbon_loop_chat(_, _)
carbon_loop_chat(groups, total_emission) ==
    IF groups = <<>> THEN total_emission
    ELSE LET group == Head(groups)
             distance == group.Distance10
             travel_mode == group.TravelMode
             emission_factor == IF travel_mode \in DOMAIN EMISSION_FACTORS_chat
                                THEN EMISSION_FACTORS_chat[travel_mode] ELSE 12
         IN  IF distance <= 0
             THEN carbon_loop_chat(Tail(groups), total_emission)
             ELSE carbon_loop_chat(Tail(groups),
                      total_emission + distance * emission_factor * group.StaffCount)

chat_calculate_total_carbon_emission(groups, up) ==
    Ok(RoundTenth(carbon_loop_chat(groups, 0), up))

---------------------------------------------------------------------------
\* Material impact analyzer.  A result is
\*   [total_impact, recyclable_rate |-> [num, den], total_qty, total_recyclable]
\* (total_plastic, which only the mock recommendations read, is left out).

\* recyclable_rate as the code leaves it unrounded: a fraction of percent.
ExactRate(total_recyclable, total_qty) ==
    IF total_qty > 0 THEN [num |-> total_recyclable * 100, den |-> total_qty]
    ELSE [num |-> 100, den |-> 1]

\* round(recyclable_rate, 1): tenths of percent, nearest, half-way by `up`.
RoundedRate(total_recyclable, total_qty, up) ==
    IF total_qty > 0
    THEN LET q == (total_recyclable * 1000) \div total_qty
             r == (total_recyclable * 1000) % total_qty
         IN  [num |-> IF 2 * r < total_qty THEN q
                      ELSE IF 2 * r > total_qty THEN q + 1
                      ELSE IF up THEN q + 1 ELSE q,
              den |-> 10]
    ELSE [num |-> 1000, den |-> 10]

\* The accumulators of the loop; weight and recyclable are the loop's locals,
\* which in app.py exist only once some iteration has assigned them.
MetricsStart ==
    [total_impact |-> 0, total_recyclable |-> 0, total_qty |-> 0,
     assigned |-> FALSE, weight |-> 0, recyclable |-> FALSE]

RECURSIVE material_loop_app(_, _)
material_loop_app(materials, acc) ==
    IF materials = <<>> THEN Ok(acc)
    ELSE LET mat == Head(materials)
             qty == mat.quantity
             custom == mat.type = "Other (Custom)"
             found == mat.type \in DOMAIN PREDEFINED_MATERIALS
             assigned == custom \/ found \/ acc.assigned
             weight == IF custom THEN mat.custom_weight
                       ELSE IF found THEN PREDEFINED_MATERIALS[mat.type].weight
                       ELSE acc.weight
             recyclable == IF custom THEN mat.custom_recyclable
                           ELSE IF found THEN PREDEFINED_MATERIALS[mat.type].recyclable
                           ELSE acc.recyclable
         IN  IF qty <= 0 THEN material_loop_app(Tail(materials), acc)
             ELSE IF ~assigned THEN Raise("UnboundLocalError")
             ELSE material_loop_app(Tail(materials),
                      [total_impact |-> acc.total_impact + (qty \div 100) * weight,
                       total_recyclable |-> acc.total_recyclable + (IF recyclable THEN qty ELSE 0),
                       total_qty |-> acc.total_qty + qty,
                       assigned |-> TRUE, weight |-> weight, recyclable |-> recyclable])

calculate_material_metrics(materials) ==
    LET r == material_loop_app(materials, MetricsStart)
    IN  IF r.err # "" THEN r
        ELSE Ok([total_impact |-> r.val.total_impact,
                 recyclable_rate |-> ExactRate(r.val.total_recyclable, r.val.total_qty),
                 total_qty |-> r.val.total_qty,
                 total_recyclable |-> r.val.total_recyclable])

RECURSIVE material_loop_ai(_, _)
material_loop_ai(materials, acc) ==
    IF materials = <<>> THEN acc
    ELSE LET mat == Head(materials)
             qty == mat.quantity
             custom == mat.type = "Other (Custom)"
             match == mat.type \in DOMAIN PREDEFINED_MATERIALS
             weight == IF custom
                       THEN (IF mat.custom_weight # 0 THEN mat.custom_weight ELSE 5)
                       ELSE IF match THEN PREDEFINED_MATERIALS[mat.type].weight ELSE 5
             recyclable == IF custom THEN mat.custom_recyclable
                           ELSE IF match THEN PREDEFINED_MATERIALS[mat.type].recyclable
                           ELSE FALSE
         IN  IF qty <= 0 THEN material_loop_ai(Tail(materials), acc)
             ELSE material_loop_ai(Tail(materials),
                      [total_impact |-> acc.total_impact + (qty \div 100) * weight,
                       total_recyclable |-> acc.total_recyclable + (IF recyclable THEN qty ELSE 0),
                       total_qty |-> acc.total_qty + qty,
                       assigned |-> TRUE, weight |-> weight, recyclable |-> recyclable])

ai_calculate_material_metrics(materials, up) ==
    LET r == material_loop_ai(materials, MetricsStart)
    IN  Ok([total_impact |-> r.total_impact,
            recyclable_rate |-> RoundedRate(r.total_recyclable, r.total_qty, up),
            total_qty |-> r.total_qty,
            total_recyclable |-> r.total_recyclable])

\* In chatrobot.py a custom entry always carries custom_weight and
\* custom_recyclable (process_step writes them), so the defaults of mat.get
\* are never taken.
\* material_loop_chat with the quantity counted before the test that skips
\* an entry of quantity 0 or less.
RECURSIVE material_loop_chat_count_first(_, _)
material_loop_chat_count_first(materials, acc) ==
    IF materials = <<>> THEN acc
    ELSE LET mat == Head(materials)
             qty == mat.quantity
             custom == mat.type = "Other (Custom)"
             match == mat.type \in DOMAIN PREDEFINED_MATERIALS
             weight == IF custom THEN mat.custom_weight
                       ELSE IF match THEN PREDEFINED_MATERIALS[mat.type].weight ELSE 5
             recyclable == IF custom THEN mat.custom_recyclable
                           ELSE IF match THEN PREDEFINED_MATERIALS[mat.type].recyclable
                           ELSE FALSE
         IN  IF qty <= 0
             THEN material_loop_chat_count_first(Tail(materials),
                      [acc EXCEPT !.total_qty = @ + qty])
             ELSE material_loop_chat_count_first(Tail(materials),
                      [total_impact |-> acc.total_impact + (qty \div 100) * weight,
                       total_recyclable |-> acc.total_recyclable + (IF recyclable THEN qty ELSE 0),
                       total_qty |-> acc.total_qty + qty,
                       assigned |-> TRUE, weight |-> weight, recyclable |-> recyclable])

RECURSIVE material_loop_chat(_, _)
material_loop_chat(materials, acc) ==
    IF materials = <<>> THEN acc
    ELSE LET mat == Head(materials)
             qty == mat.quantity
             custom == mat.type = "Other (Custom)"
             match == mat.type \in DOMAIN PREDEFINED_MATERIALS
             weight == IF custom THEN mat.custom_weight
                       ELSE IF match THEN PREDEFINED_MATERIALS[mat.type].weight ELSE 5
             recyclable == IF custom THEN mat.custom_recyclable
                           ELSE IF match THEN PREDEFINED_MATERIALS[mat.type].recyclable
                           ELSE FALSE
         IN  IF qty <= 0 THEN material_loop_chat(Tail(materials), acc)
             ELSE material_loop_chat(Tail(materials),
                      [total_impact |-> acc.total_impact + (qty \div 100) * weight,
                       total_recyclable |-> acc.total_recyclable + (IF recyclable THEN qty ELSE 0),
                       total_qty |-> acc.total_qty + qty,
                       assigned |-> TRUE, weight |-> weight, recyclable |-> recyclable])

chat_calculate_material_metrics(materials, up) ==
    LET r == material_loop_chat(materials, MetricsStart)
    IN  Ok([total_impact |-> r.total_impact,
            recyclable_rate |-> RoundedRate(r.total_recyclable, r.total_qty, up),
            total_qty |-> r.total_qty,
            total_recyclable |-> r.total_recyclable])

---------------------------------------------------------------------------
\* Pillar score aggregator.  The expressions for the travel band, the material
\* penalty and bonus, the local vendor score and the checklists are written
\* the same in the three files; the accommodation look-up differs.

Min(a, b) == IF a <= b THEN a ELSE b
Max(a, b) == IF a >= b THEN a ELSE b

\* travel_score with the last band's boundary taken exclusive.
travel_score_excl(c) ==
    IF c <= 500000 THEN 20
    ELSE IF 501000 <= c /\ c <= 1000000 THEN 17
    ELSE IF 1001000 <= c /\ c <= 1500000 THEN 14
    ELSE IF 1501000 <= c /\ c < 2000000 THEN 11
    ELSE 8

\* 20 if c <= 500 else 17 if 501 <= c <= 1000 else 14 if 1001 <= c <= 1500
\* else 11 if 1501 <= c <= 2000 else 8, on thousandths of a kilogram.
travel_score(c) ==
    IF c <= 500000 THEN 20
    ELSE IF 501000 <= c /\ c <= 1000000 THEN 17
    ELSE IF 1001000 <= c /\ c <= 1500000 THEN 14
    ELSE IF 1501000 <= c /\ c <= 2000000 THEN 11
    ELSE 8

material_penalty(total_material_impact) == Min(10, total_material_impact \div 5)

\* 5 if rate >= 70 else 2 if 30 <= rate < 70 else 0
recyclable_bonus(rate) ==
    IF rate.num >= 70 * rate.den THEN 5
    ELSE IF 30 * rate.den <= rate.num /\ rate.num < 70 * rate.den THEN 2
    ELSE 0

material_score(total_material_impact, rate) ==
    Max(0, 20 - material_penalty(total_material_impact) + recyclable_bonus(rate))

\* Python 3 round(): nearest integer, an exact half to the even neighbour.
\* pct / 100 * 15 is exactly num / den for num = 15 * pct, den = 100.
PyRound(num, den) ==
    LET q == num \div den
        r == num % den
    IN  IF 2 * r < den THEN q
        ELSE IF 2 * r > den THEN q + 1
        ELSE IF q % 2 = 0 THEN q ELSE q + 1

local_score(pct) == Min(15, PyRound(pct * 15, 100))

RECURSIVE SumStaff(_)
SumStaff(groups) ==
    IF groups = <<>> THEN 0 ELSE Head(groups).StaffCount + SumStaff(Tail(groups))

\* SumChecks that stops at the first entry that is not True.
RECURSIVE SumChecksLeading(_)
SumChecksLeading(checks) ==
    IF checks = <<>> THEN 0
    ELSE IF Head(checks) THEN 1 + SumChecksLeading(Tail(checks)) ELSE 0

\* sum(checks): the number of True entries
RECURSIVE SumChecks(_)
SumChecks(checks) ==
    IF checks = <<>> THEN 0
    ELSE (IF Head(checks) THEN 1 ELSE 0) + SumChecks(Tail(checks))

\* app.py: 15 if Budget or 3-star, else 10 if 4-star, else 5
acc_score_app(accommodation) ==
    IF accommodation \in {"Budget", "3-star"} THEN 15
    ELSE IF accommodation = "4-star" THEN 10 ELSE 5

acc_score_map == ("Budget" :> 15) @@ ("3-star" :> 15) @@ ("4-star" :> 10) @@ ("5-star" :> 5)

\* total_acc_score_app with the points of a group not multiplied by its
\* staff count.
RECURSIVE total_acc_score_app_unweighted(_)
total_acc_score_app_unweighted(groups) ==
    IF groups = <<>> THEN 0
    ELSE acc_score_app(Head(groups).Accommodation)
         + total_acc_score_app_unweighted(Tail(groups))

RECURSIVE total_acc_score_app(_)
total_acc_score_app(groups) ==
    IF groups = <<>> THEN 0
    ELSE acc_score_app(Head(groups).Accommodation) * Head(groups).StaffCount
         + total_acc_score_app(Tail(groups))

\* chatrobot.py: acc_score_map.get(accommodation, 0)
RECURSIVE total_acc_score_chat(_)
total_acc_score_chat(groups) ==
    IF groups = <<>> THEN 0
    ELSE (IF Head(groups).Accommodation \in DOMAIN acc_score_map
          THEN acc_score_map[Head(groups).Accommodation] ELSE 0) * Head(groups).StaffCount
         + total_acc_score_chat(Tail(groups))

\* The record a scoring function returns: the four pillars, and next to them
\* the sub-scores it computed on the way (its locals).
ScoreReport(travel, material, local, accommodation, gov, ops) ==
    [Environmental |-> travel + material,
     Social |-> local + accommodation,
     Governance |-> gov,
     Operations |-> ops,
     travel |-> travel, material |-> material,
     local |-> local, accommodation |-> accommodation]

calculate_scores(data) ==
    LET c == calculate_total_carbon(data.StaffGroups)
        m == calculate_material_metrics(data.Materials)
        total_staff == SumStaff(data.StaffGroups)
        total_acc == total_acc_score_app(data.StaffGroups)
    IN  IF c.err # "" THEN Raise(c.err)
        ELSE IF m.err # "" THEN Raise(m.err)
        ELSE Ok(ScoreReport(
                 travel_score(c.val),
                 material_score(m.val.total_impact, m.val.recyclable_rate),
                 local_score(data.LocalVendorPct),
                 IF total_staff > 0 THEN total_acc \div total_staff ELSE 0,
                 SumChecks(data.governance_checks) * 4,
                 SumChecks(data.operations_checks) * 2))

\* ai.py: acc_score_map[g["Accommodation"]] raises on a key it does not hold
RECURSIVE total_acc_score_ai(_)
total_acc_score_ai(groups) ==
    IF groups = <<>> THEN 0
    ELSE acc_score_map[Head(groups).Accommodation] * Head(groups).StaffCount
         + total_acc_score_ai(Tail(groups))

ai_calculate_sustainability_scores(data, carbon_up, rate_up) ==
    LET c == ai_calculate_total_carbon_emission(data.StaffGroups, carbon_up)
        m == ai_calculate_material_metrics(data.Materials, rate_up)
        total_staff == SumStaff(data.StaffGroups)
        known == \A i \in DOMAIN data.StaffGroups :
                     data.StaffGroups[i].Accommodation \in DOMAIN acc_score_map
        total_acc == total_acc_score_ai(data.StaffGroups)
    IN  IF ~known THEN Raise("KeyError")
        ELSE Ok(ScoreReport(
                 travel_score(c.val),
                 material_score(m.val.total_impact, m.val.recyclable_rate),
                 local_score(data.LocalVendorPct),
                 IF total_staff > 0 THEN total_acc \div total_staff ELSE 0,
                 SumChecks(data.governance_checks) * 4,
                 SumChecks(data.operations_checks) * 2))

chat_calculate_sustainability_scores(data, carbon_up, rate_up) ==
    LET c == chat_calculate_total_carbon_emission(data.StaffGroups, carbon_up)
        m == chat_calculate_material_metrics(data.Materials, rate_up)
        total_staff == SumStaff(data.StaffGroups)
        total_acc == total_acc_score_chat(data.StaffGroups)
    IN  Ok(ScoreReport(
            travel_score(c.val),
            material_score(m.val.total_impact, m.val.recyclable_rate),
            local_score(data.LocalVendorPct),
            IF total_staff > 0 THEN total_acc \div total_staff ELSE 0,
            SumChecks(data.governance_checks) * 4,
            SumChecks(data.operations_checks) * 2))

\* SumScores with the total capped at 100.
SumScoresCapped(s) == Min(100, s.Environmental + s.Social + s.Governance + s.Operations)

\* sum(scores.values())
SumScores(s) == s.Environmental + s.Social + s.Governance + s.Operations

---------------------------------------------------------------------------
\* Campaign snapshots the engine is run on

Group(staff, dist10, mode, acc) ==
    [StaffCount |-> staff, Distance10 |-> dist10, TravelMode |-> mode, Accommodation |-> acc]

Material(type, qty, w, rec) ==
    [type |-> type, quantity |-> qty, custom_weight |-> w, custom_recyclable |-> rec]

\* Travel groups, in whole kilometres as the forms take them: emissions of
\* 4.25, 495.76 and 1995.76 kg, which add up to 0.01 kg above the band
\* boundaries 500 and 2000 (4.25 is also half-way between two tenths); 2000 kg
\* exactly, under a mode that is a key in ai.py and chatrobot.py and not in
\* app.py; a group that stays at home, with a mode no table holds; the default
\* group of app.py and ai.py, whose mode "Air" is a key in app.py only.
GroupValues ==
    { Group(1, 250, "Car", "Budget"),
      Group(1, 61970, "Bus", "3-star"),
      Group(1, 249470, "Bus", "3-star"),
      Group(1, 80000, "Air - Economy", "5-star"),
      Group(10, 0, "Zeppelin", "3-star"),
      Group(15, 8700, "Air", "4-star") }

\* Materials: the default brochures, a non-recyclable predefined material, a
\* name no definition matches, an entry of quantity 0.
MaterialValues ==
    { Material("Brochures", 2000, 0, FALSE),
      Material("Plastic Tote Bags", 300, 0, FALSE),
      Material("Banner", 300, 0, FALSE),
      Material("Flyers", 0, 0, FALSE) }

NoChecks == <<FALSE, FALSE, FALSE, FALSE, FALSE>>
AllChecks == <<TRUE, TRUE, TRUE, TRUE, TRUE>>
SomeChecks == <<TRUE, FALSE, TRUE, FALSE, FALSE>>

\* The remaining answers: <<Local Vendor %, governance_checks, operations_checks>>
AnswerValues ==
    { <<0, NoChecks, NoChecks>>, <<70, SomeChecks, NoChecks>>,
      <<100, NoChecks, SomeChecks>>, <<100, AllChecks, AllChecks>> }

SeqsUpTo(S, n) == UNION { [1..k -> S] : k \in 0..n }

Snapshots ==
    { [StaffGroups |-> g, Materials |-> m, LocalVendorPct |-> a[1],
       governance_checks |-> a[2], operations_checks |-> a[3]] :
          g \in SeqsUpTo(GroupValues, MaxGroups),
          m \in SeqsUpTo(MaterialValues, MaxMaterials),
          a \in AnswerValues }

\* The exact totals a rounding is applied to, to tell whether it is a tie.
RawCarbon(v, data) ==
    IF v = "ai" THEN carbon_loop_ai(data.StaffGroups, 0)
    ELSE carbon_loop_chat(data.StaffGroups, 0)

CarbonTie(v, data) == v # "app" /\ RawCarbon(v, data) % 100 = 50

RateTie(v, data) ==
    LET r == IF v = "ai" THEN material_loop_ai(data.Materials, MetricsStart)
             ELSE material_loop_chat(data.Materials, MetricsStart)
    IN  v # "app" /\ r.total_qty > 0
        /\ 2 * ((r.total_recyclable * 1000) % r.total_qty) = r.total_qty

---------------------------------------------------------------------------
\* The three variants' functions, by variant

TotalCarbonOf(v, data, up) ==
    CASE v = "app"  -> calculate_total_carbon(data.StaffGroups)
      [] v = "ai"   -> ai_calculate_total_carbon_emission(data.StaffGroups, up)
      [] v = "chat" -> chat_calculate_total_carbon_emission(data.StaffGroups, up)

MaterialMetricsOf(v, data, up) ==
    CASE v = "app"  -> calculate_material_metrics(data.Materials)
      [] v = "ai"   -> ai_calculate_material_metrics(data.Materials, up)
      [] v = "chat" -> chat_calculate_material_metrics(data.Materials, up)

ScoresOf(v, data, carbon_up, rate_up) ==
    CASE v = "app"  -> calculate_scores(data)
      [] v = "ai"   -> ai_calculate_sustainability_scores(data, carbon_up, rate_up)
      [] v = "chat" -> chat_calculate_sustainability_scores(data, carbon_up, rate_up)

---------------------------------------------------------------------------
\* One scoring run: the dashboard of app.py and ai.py, generate_report of
\* chatrobot.py.  An exception ends the run (pc = "failed").

NoMetrics ==
    [total_impact |-> 0, recyclable_rate |-> [num |-> 0, den |-> 1],
     total_qty |-> 0, total_recyclable |-> 0]

NoScores == ScoreReport(0, 0, 0, 0, 0, 0)

\* The rest of the session state while a variant only scores a snapshot: the
\* forms display one row per stored group and material, the chat has not
\* begun.
SessionAtRest ==
    /\ staff_group_count = Len(campaign_data.StaffGroups)
    /\ material_count = Len(campaign_data.Materials)
    /\ OPENAI_AVAILABLE = FALSE
    /\ current_step = 0
    /\ waiting_for_input = TRUE
    /\ conversation = <<>>
    /\ report_text = <<>>

Init ==
    /\ variant \in Variants
    /\ campaign_data \in Snapshots
    /\ fp_carbon_up \in (IF CarbonTie(variant, campaign_data) THEN BOOLEAN ELSE {FALSE})
    /\ fp_rate_up \in (IF RateTie(variant, campaign_data) THEN BOOLEAN ELSE {FALSE})
    /\ pc = "start"
    /\ error = ""
    /\ total_carbon = 0
    /\ material_metrics = NoMetrics
    /\ scores = NoScores
    /\ total_score = 0
    /\ SessionAtRest

\* CalculateTotalCarbon with the total added to the one a previous run left.
CalculateTotalCarbonAccumulating ==
    /\ pc = "start"
    /\ LET r == TotalCarbonOf(variant, campaign_data, fp_carbon_up)
       IN  IF r.err # ""
           THEN /\ pc' = "failed"
                /\ error' = r.err
                /\ UNCHANGED total_carbon
           ELSE /\ pc' = "carbon"
                /\ total_carbon' = total_carbon + r.val
                /\ UNCHANGED error
    /\ UNCHANGED <<variant, campaign_data, fp_carbon_up, fp_rate_up,
                   material_metrics, scores, total_score>>
    /\ UNCHANGED <<form_vars, chat_vars>>

\* total_carbon = calculate_total_carbon()
CalculateTotalCarbon ==
    /\ pc = "start"
    /\ LET r == TotalCarbonOf(variant, campaign_data, fp_carbon_up)
       IN  IF r.err # ""
           THEN /\ pc' = "failed"
                /\ error' = r.err
                /\ UNCHANGED total_carbon
           ELSE /\ pc' = "carbon"
                /\ total_carbon' = r.val
                /\ UNCHANGED error
    /\ UNCHANGED <<variant, campaign_data, fp_carbon_up, fp_rate_up,
                   material_metrics, scores, total_score>>
    /\ UNCHANGED <<form_vars, chat_vars>>

\* total_material_impact, recyclable_rate, ... = calculate_material_metrics()
CalculateMaterialMetrics ==
    /\ pc = "carbon"
    /\ LET r == MaterialMetricsOf(variant, campaign_data, fp_rate_up)
       IN  IF r.err # ""
           THEN /\ pc' = "failed"
                /\ error' = r.err
                /\ UNCHANGED material_metrics
           ELSE /\ pc' = "metrics"
                /\ material_metrics' = r.val
                /\ UNCHANGED error
    /\ UNCHANGED <<variant, campaign_data, fp_carbon_up, fp_rate_up,
                   total_carbon, scores, total_score>>
    /\ UNCHANGED <<form_vars, chat_vars>>

\* scores = calculate_scores()
CalculateScores ==
    /\ pc = "metrics"
    /\ LET r == ScoresOf(variant, campaign_data, fp_carbon_up, fp_rate_up)
       IN  IF r.err # ""
           THEN /\ pc' = "failed"
                /\ error' = r.err
                /\ UNCHANGED scores
           ELSE /\ pc' = "scores"
                /\ scores' = r.val
                /\ UNCHANGED error
    /\ UNCHANGED <<variant, campaign_data, fp_carbon_up, fp_rate_up,
                   total_carbon, material_metrics, total_score>>
    /\ UNCHANGED <<form_vars, chat_vars>>

\* total_score = sum(scores.values())
TotalScore ==
    /\ pc = "scores"
    /\ total_score' = SumScores(scores)
    /\ pc' = "done"
    /\ UNCHANGED <<variant, campaign_data, fp_carbon_up, fp_rate_up,
                   error, total_carbon, material_metrics, scores>>
    /\ UNCHANGED <<form_vars, chat_vars>>

Next ==
    \/ CalculateTotalCarbon
    \/ CalculateMaterialMetrics
    \/ CalculateScores
    \/ TotalScore

Spec == Init /\ [][Next]_vars

---------------------------------------------------------------------------
\* Properties.  Stages of a run at which a result has been returned:

CarbonReturned == pc \in {"carbon", "metrics", "scores", "done"}
MetricsReturned == pc \in {"metrics", "scores", "done"}
Scored == pc \in {"scores", "done"}

\* The step function as the specification words it: upper-inclusive bands over
\* every value, on thousandths of a kilogram.
Band(c) ==
    IF c <= 500000 THEN 20
    ELSE IF c <= 1000000 THEN 17
    ELSE IF c <= 1500000 THEN 14
    ELSE IF c <= 2000000 THEN 11
    ELSE 8

\* C1: the travel sub-score is a total step function of the total carbon the
\* calculator returned, without gap or overlap: 20 up to 500 kg, 17 above 500
\* and up to 1000, 14 up to 1500, 11 up to 2000, and 8 only above 2000,
\* fractional totals included.
C1_StepFunction == Scored => scores.travel = Band(total_carbon)

\* C2: a total carbon of exactly 500 kg gives travel sub-score 20 and a total
\* carbon of 500.01 kg gives 17.
C2_FirstBoundary ==
    Scored => /\ (total_carbon = 500000 => scores.travel = 20)
              /\ (total_carbon = 500010 => scores.travel = 17)

\* C3: a total carbon of exactly 2000 kg gives travel sub-score 11 and a total
\* carbon of 2000.01 kg gives 8.
C3_LastBoundary ==
    Scored => /\ (total_carbon = 2000000 => scores.travel = 11)
              /\ (total_carbon = 2000010 => scores.travel = 8)

\* C3 witness: a run scored a snapshot whose total carbon is 2000.01 kg.
C3_Witness == Scored /\ total_carbon = 2000010 /\ scores.travel = 8

---------------------------------------------------------------------------
\* The emission total as the specification words it.

FactorTable(v) ==
    CASE v = "app"  -> EMISSION_FACTORS_app
      [] v = "ai"   -> EMISSION_FACTORS_ai
      [] v = "chat" -> EMISSION_FACTORS_chat

\* The table's factor, and the "Other" factor for a mode the table lacks.
FactorOrOther(v, mode) ==
    IF mode \in DOMAIN FactorTable(v) THEN FactorTable(v)[mode] ELSE FactorTable(v)["Other"]

Contribution(v, g) ==
    IF g.Distance10 > 0
    THEN g.Distance10 * FactorOrOther(v, g.TravelMode) * g.StaffCount
    ELSE 0

\* Sum of the contributions of groups[1..n]
RECURSIVE EmissionsUpTo(_, _, _)
EmissionsUpTo(v, groups, n) ==
    IF n = 0 THEN 0
    ELSE EmissionsUpTo(v, groups, n - 1) + Contribution(v, groups[n])

Emissions(v, groups) == EmissionsUpTo(v, groups, Len(groups))

\* Some group that travels names a mode the variant's table lacks.
UnknownModeTravels(v, groups) ==
    \E i \in DOMAIN groups :
        groups[i].Distance10 > 0 /\ groups[i].TravelMode \notin DOMAIN FactorTable(v)

\* x is y rounded to a tenth of a kilogram.
IsRoundedToTenth(x, y) == x % 100 = 0 /\ x - y <= 50 /\ y - x <= 50

C5_UnknownModeFallsBack ==
    pc # "start" /\ UnknownModeTravels(variant, campaign_data.StaffGroups)
        => /\ ~(pc = "failed" /\ error = "KeyError")
           /\ CarbonReturned =>
                 \/ total_carbon = Emissions(variant, campaign_data.StaffGroups)
                 \/ IsRoundedToTenth(total_carbon, Emissions(variant, campaign_data.StaffGroups))

---------------------------------------------------------------------------
\* The material metrics as the specification words them.

IsCustom(mat) == mat.type = "Other (Custom)"
IsUnknownMaterial(mat) == ~IsCustom(mat) /\ mat.type \notin DOMAIN PREDEFINED_MATERIALS

\* Weight and recyclability of an entry: its custom fields, its definition,
\* or weight 5 and non-recyclable for a name no definition matches.
WeightOf(mat) ==
    IF IsCustom(mat) THEN mat.custom_weight
    ELSE IF mat.type \in DOMAIN PREDEFINED_MATERIALS THEN PREDEFINED_MATERIALS[mat.type].weight
    ELSE 5

RecyclableOf(mat) ==
    IF IsCustom(mat) THEN mat.custom_recyclable
    ELSE IF mat.type \in DOMAIN PREDEFINED_MATERIALS
         THEN PREDEFINED_MATERIALS[mat.type].recyclable
    ELSE FALSE

RECURSIVE ImpactUpTo(_, _)
ImpactUpTo(materials, n) ==
    IF n = 0 THEN 0
    ELSE ImpactUpTo(materials, n - 1)
         + (IF materials[n].quantity > 0
            THEN (materials[n].quantity \div 100) * WeightOf(materials[n]) ELSE 0)

RECURSIVE RecyclableUpTo(_, _)
RecyclableUpTo(materials, n) ==
    IF n = 0 THEN 0
    ELSE RecyclableUpTo(materials, n - 1)
         + (IF materials[n].quantity > 0 /\ RecyclableOf(materials[n])
            THEN materials[n].quantity ELSE 0)

\* Some entry that counts names a material no definition matches.
UnknownMaterialCounts(materials) ==
    \E i \in DOMAIN materials : materials[i].quantity > 0 /\ IsUnknownMaterial(materials[i])

\* C6: an entry with quantity above 0 that is not custom and matches no
\* predefined material is scored with weight 5 and as non-recyclable,
\* whatever the other entries and its position, and raises no error.
C6_UnknownMaterialDefaults ==
    UnknownMaterialCounts(campaign_data.Materials)
        => /\ ~(pc = "failed" /\ error = "UnboundLocalError")
           /\ MetricsReturned =>
                 /\ material_metrics.total_impact
                        = ImpactUpTo(campaign_data.Materials, Len(campaign_data.Materials))
                 /\ material_metrics.total_recyclable
                        = RecyclableUpTo(campaign_data.Materials, Len(campaign_data.Materials))

---------------------------------------------------------------------------
\* A valid campaign snapshot for a variant: staff counts of at least 1,
\* distances and quantities not negative, modes the variant's table holds,
\* the four accommodation classes, predefined materials or custom ones with a
\* weight of 1..10, a percentage of 0..100 and two checklists of five booleans.
ValidSnapshot(v, data) ==
    /\ \A i \in DOMAIN data.StaffGroups :
           /\ data.StaffGroups[i].StaffCount >= 1
           /\ data.StaffGroups[i].Distance10 >= 0
           /\ data.StaffGroups[i].TravelMode \in DOMAIN FactorTable(v)
           /\ data.StaffGroups[i].Accommodation \in {"Budget", "3-star", "4-star", "5-star"}
    /\ \A i \in DOMAIN data.Materials :
           /\ data.Materials[i].quantity >= 0
           /\ \/ data.Materials[i].type \in DOMAIN PREDEFINED_MATERIALS
              \/ IsCustom(data.Materials[i]) /\ data.Materials[i].custom_weight \in 1..10
    /\ data.LocalVendorPct \in 0..100
    /\ data.governance_checks \in [1..5 -> BOOLEAN]
    /\ data.operations_checks \in [1..5 -> BOOLEAN]

\* C7: for every valid snapshot each pillar score stays within its maximum:
\* Environmental Impact in 0..40, Social Responsibility in 0..30, Governance
\* in 0..20, Operations in 0..10.
C7_PillarMaxima ==
    Scored /\ ValidSnapshot(variant, campaign_data)
        => /\ scores.Environmental \in 0..40
           /\ scores.Social \in 0..30
           /\ scores.Governance \in 0..20
           /\ scores.Operations \in 0..10

\* C8: the overall score shown as "out of 100" is between 0 and 100 for every
\* valid snapshot.
C8_TotalWithin100 ==
    pc = "done" /\ ValidSnapshot(variant, campaign_data) => total_score \in 0..100

\* C9: the total score is exactly the sum of the four pillar scores the
\* aggregator returned; no clamp or other adjustment is applied.
C9_TotalIsSum ==
    pc = "done" =>
        total_score = scores.Environmental + scores.Social
                      + scores.Governance + scores.Operations

\* C9 witness: a finished run whose four pillars add up to more than 100.
C9_Witness ==
    /\ pc = "done"
    /\ scores.Environmental + scores.Social + scores.Governance + scores.Operations > 100
    /\ total_score > 100

---------------------------------------------------------------------------
\* The travel groups that travel: those with a distance above 0.
Travelling(groups) == SelectSeq(groups, LAMBDA g : g.Distance10 > 0)

\* C10: a group with distance 0 contributes exactly 0 to the total, whatever
\* its staff count and mode, and causes no error: the run ends as the
\* calculator ends on the snapshot without its distance-0 groups, with the
\* same total or the same error.
C10_ZeroDistanceIsAbsent ==
    LET without == [campaign_data EXCEPT !.StaffGroups = Travelling(@)]
        r == TotalCarbonOf(variant, without, fp_carbon_up)
    IN  /\ CarbonReturned => r.err = "" /\ r.val = total_carbon
        /\ pc = "failed" /\ error = "KeyError" /\ variant = "app" => r.err = "KeyError"
        /\ CarbonReturned =>
               total_carbon = 0 \/ Travelling(campaign_data.StaffGroups) # <<>>

\* C10 witness: app.py returned a total above 0 for a snapshot that holds a
\* distance-0 group whose mode its table lacks.
C10_Witness ==
    /\ CarbonReturned /\ variant = "app" /\ total_carbon > 0
    /\ \E i \in DOMAIN campaign_data.StaffGroups :
           /\ campaign_data.StaffGroups[i].Distance10 = 0
           /\ campaign_data.StaffGroups[i].StaffCount > 0
           /\ campaign_data.StaffGroups[i].TravelMode \notin DOMAIN EMISSION_FACTORS_app

---------------------------------------------------------------------------
\* One travel group made larger: one kilometre further, or one more person.
BumpDistance(groups, i) == [groups EXCEPT ![i].Distance10 = @ + 10]
BumpStaff(groups, i) == [groups EXCEPT ![i].StaffCount = @ + 1]

Bumped(groups) ==
    { BumpDistance(groups, i) : i \in DOMAIN groups }
        \cup { BumpStaff(groups, i) : i \in DOMAIN groups }

\* The sides a half-way total of the larger snapshot may be rounded to: either
\* one, unless the snapshot adds up to the same exact total (staff added to a
\* group that stays at home), where the calculator repeats the very same
\* floating-point steps.
BumpedRoundings(v, data, groups) ==
    IF v # "app" /\ RawCarbon(v, [data EXCEPT !.StaffGroups = groups]) = RawCarbon(v, data)
    THEN {fp_carbon_up} ELSE BOOLEAN

\* C11: the total the calculator has just returned is never negative, and it
\* is monotonic: for groups with a staff count of at least 1 and a distance of at
\* least 0, making one group's distance or staff count larger, all else equal,
\* never makes the calculator return a smaller total.
C11_NonNegativeMonotonic ==
    pc = "carbon" =>
        /\ total_carbon >= 0
        /\ \A groups \in Bumped(campaign_data.StaffGroups) :
             \A up \in BumpedRoundings(variant, campaign_data, groups) :
               LET r == TotalCarbonOf(variant,
                            [campaign_data EXCEPT !.StaffGroups = groups], up)
               IN  r.err = "" => r.val >= total_carbon

\* C11 witness: ai.py or chatrobot.py returned a total above 0 that one more
\* kilometre for a travelling group leaves the same (the rounding absorbs it)
\* and one more person makes larger.
C11_Witness ==
    /\ CarbonReturned /\ variant # "app" /\ total_carbon > 0
    /\ \E i \in DOMAIN campaign_data.StaffGroups :
         /\ campaign_data.StaffGroups[i].Distance10 > 0
         /\ TotalCarbonOf(variant, [campaign_data EXCEPT !.StaffGroups =
                BumpDistance(campaign_data.StaffGroups, i)], FALSE).val = total_carbon
         /\ TotalCarbonOf(variant, [campaign_data EXCEPT !.StaffGroups =
                BumpStaff(campaign_data.StaffGroups, i)], FALSE).val > total_carbon

---------------------------------------------------------------------------
\* Scoring runs on the material lists the variants can hold.  The forms of
\* app.py and ai.py store a name chosen from PREDEFINED_MATERIALS and a
\* quantity of at least 0, and the initial campaign of app.py holds 300
\* "Plastic Badges", a name no definition matches; process_step of
\* chatrobot.py stores whatever type and int(quantity) the extraction
\* returned, and gives a custom entry weight 5, not recyclable.

\* Longest list of materials of these runs.
MaxEntries == 3

\* Recyclable brochures; plastic bags that bring the brochures' share to
\* 69.98%; cotton bags that are 29.96% of themselves and the plastic bags; a
\* quantity under 100; an entry of quantity 0; the plastic badges; a custom
\* material; in chatrobot.py a negative quantity.
MaterialCases(v) ==
    { Material("Brochures", 2000, 0, FALSE),
      Material("Plastic Tote Bags", 858, 0, FALSE),
      Material("Cotton Tote Bags", 367, 0, FALSE),
      Material("Flyers", 60, 0, FALSE),
      Material("Flyers", 0, 0, FALSE),
      Material("Plastic Badges", 300, 0, FALSE) }
    \cup (IF v = "chat"
          THEN { Material("Metal Badges", -100, 0, FALSE),
                 Material("Other (Custom)", 250, 5, FALSE) }
          ELSE { Material("Other (Custom)", 250, 7, TRUE) })

MaterialSnapshots(v) ==
    { [StaffGroups |-> g, Materials |-> m, LocalVendorPct |-> 70,
       governance_checks |-> NoChecks, operations_checks |-> NoChecks] :
          g \in { <<>>, <<Group(1, 250, "Car", "Budget")>> },
          m \in SeqsUpTo(MaterialCases(v), MaxEntries) }

InitMaterials ==
    /\ variant \in Variants
    /\ campaign_data \in MaterialSnapshots(variant)
    /\ fp_carbon_up \in (IF CarbonTie(variant, campaign_data) THEN BOOLEAN ELSE {FALSE})
    /\ fp_rate_up \in (IF RateTie(variant, campaign_data) THEN BOOLEAN ELSE {FALSE})
    /\ pc = "start"
    /\ error = ""
    /\ total_carbon = 0
    /\ material_metrics = NoMetrics
    /\ scores = NoScores
    /\ total_score = 0
    /\ SessionAtRest

SpecMaterials == InitMaterials /\ [][Next]_vars

\* The list without its i-th entry.
RemoveAt(seq, i) == SubSeq(seq, 1, i - 1) \o SubSeq(seq, i + 1, Len(seq))

\* The snapshots that lack one entry of quantity 0 or less.
WithoutOneAbsent(data) ==
    { [data EXCEPT !.Materials = RemoveAt(@, i)] :
          i \in { j \in DOMAIN data.Materials : data.Materials[j].quantity <= 0 } }

\* C12: a material entry with a quantity of 0 or less is treated as absent:
\* removing any such entry from the list changes neither the total impact, nor
\* the recyclable rate, nor the total quantity, nor any pillar score.
C12_NonPositiveIsAbsent ==
    \A without \in WithoutOneAbsent(campaign_data) :
        LET m == MaterialMetricsOf(variant, without, fp_rate_up)
            s == ScoresOf(variant, without, fp_carbon_up, fp_rate_up)
        IN  /\ MetricsReturned => m.err = "" /\ m.val = material_metrics
            /\ pc = "failed" => m.err = error
            /\ Scored => s.err = "" /\ s.val = scores

\* C12 witness: a run scored a list that holds a negative quantity next to
\* two entries that count.
C12_Witness ==
    /\ Scored /\ material_metrics.total_qty > 0
    /\ Len(campaign_data.Materials) = 3
    /\ \E i \in 1..3 : campaign_data.Materials[i].quantity < 0
    /\ \E i \in 1..3 : campaign_data.Materials[i].quantity = 0

---------------------------------------------------------------------------
\* C13: the total material impact is the sum, over the entries with a quantity
\* above 0, of floor(quantity / 100) x weight, the floor taken per entry before
\* the sum: an entry under 100 units adds nothing, even where several such
\* entries together exceed 100 units; the total is a non-negative integer.
C13_ImpactIsSumOfFloors ==
    MetricsReturned =>
        /\ material_metrics.total_impact
               = ImpactUpTo(campaign_data.Materials, Len(campaign_data.Materials))
        /\ material_metrics.total_impact \in Nat
        /\ (\A i \in DOMAIN campaign_data.Materials : campaign_data.Materials[i].quantity < 100)
               => material_metrics.total_impact = 0

---------------------------------------------------------------------------
\* The total quantity as the specification words it: the sum of the
\* quantities above 0.
RECURSIVE QuantityUpTo(_, _)
QuantityUpTo(materials, n) ==
    IF n = 0 THEN 0
    ELSE QuantityUpTo(materials, n - 1)
         + (IF materials[n].quantity > 0 THEN materials[n].quantity ELSE 0)

TotalQuantity(materials) == QuantityUpTo(materials, Len(materials))
RecyclableQuantity(materials) == RecyclableUpTo(materials, Len(materials))

RECURSIVE GCD(_, _)
GCD(a, b) == IF b = 0 THEN a ELSE GCD(b, a % b)

\* rate (a fraction of percent) is exactly recyclable / total x 100, for a
\* total above 0: rate.num / rate.den = recyclable x 100 / total, compared
\* cross-wise after the two denominators are divided by their common divisor.
IsExactRate(rate, recyclable, total) ==
    LET g == GCD(total, rate.den)
    IN  rate.num * (total \div g) = recyclable * 100 * (rate.den \div g)

RateWithin0And100(rate) == 0 <= rate.num /\ rate.num <= 100 * rate.den

\* C14: the recyclable rate equals recyclable quantity / total quantity x 100
\* over the entries with a quantity above 0 when the total quantity is above
\* 0, and is exactly 100 when the total quantity is 0 (the total impact is
\* then 0); it lies in 0..100 and no division by zero occurs.
C14_ExactRate ==
    LET total == TotalQuantity(campaign_data.Materials)
        recyclable == RecyclableQuantity(campaign_data.Materials)
        rate == material_metrics.recyclable_rate
    IN  /\ total = 0 => pc # "failed"
        /\ MetricsReturned =>
              /\ total > 0 => IsExactRate(rate, recyclable, total)
              /\ total = 0 => rate.num = 100 * rate.den /\ material_metrics.total_impact = 0
              /\ RateWithin0And100(rate)

---------------------------------------------------------------------------
\* The bonus the true recyclable rate earns: recyclable / total x 100 compared
\* with 70 and 30 without any rounding (a total of 0 counts as 100%).
TrueRateBonus(recyclable, total) ==
    IF total = 0 THEN 5
    ELSE IF recyclable * 100 >= 70 * total THEN 5
    ELSE IF recyclable * 100 >= 30 * total THEN 2
    ELSE 0

\* C15: the material sub-score is max(0, 20 - penalty + bonus) with penalty =
\* min(10, floor(total impact / 5)) and bonus 5 for a recyclable rate of at
\* least 70, 2 for a rate of at least 30 and under 70, 0 under 30, the rate
\* being recyclable quantity / total quantity x 100: a true rate strictly
\* under 70% never earns 5 and one strictly under 30% never earns 2.
C15_BonusOfTrueRate ==
    Scored =>
        LET total == TotalQuantity(campaign_data.Materials)
            recyclable == RecyclableQuantity(campaign_data.Materials)
            penalty == Min(10, material_metrics.total_impact \div 5)
        IN  scores.material = Max(0, 20 - penalty + TrueRateBonus(recyclable, total))

---------------------------------------------------------------------------
\* The accommodation points as the specification lists them.
AccommodationPoints ==
    ("Budget" :> 15) @@ ("3-star" :> 15) @@ ("4-star" :> 10) @@ ("5-star" :> 5)

\* Sum over groups[1..n] of points x staff count, and of the staff counts.
RECURSIVE StaffPointsUpTo(_, _)
StaffPointsUpTo(groups, n) ==
    IF n = 0 THEN 0
    ELSE StaffPointsUpTo(groups, n - 1)
         + AccommodationPoints[groups[n].Accommodation] * groups[n].StaffCount

RECURSIVE StaffUpTo(_, _)
StaffUpTo(groups, n) ==
    IF n = 0 THEN 0 ELSE StaffUpTo(groups, n - 1) + groups[n].StaffCount

FourClasses(groups) ==
    \A i \in DOMAIN groups : groups[i].Accommodation \in DOMAIN AccommodationPoints

\* C17: the accommodation sub-score is floor((sum over the groups of points x
\* staff count) / (total staff)) with Budget = 15, 3-star = 15, 4-star = 10,
\* 5-star = 5; it is 0, without a division error, when the total staff is 0
\* (an empty list of groups in particular), and lies in 5..15 otherwise.
C17_AccommodationAverage ==
    LET groups == campaign_data.StaffGroups
        staff == StaffUpTo(groups, Len(groups))
    IN  FourClasses(groups) =>
          /\ pc = "metrics" /\ staff = 0
                 => ScoresOf(variant, campaign_data, fp_carbon_up, fp_rate_up).err = ""
          /\ Scored /\ staff = 0 => scores.accommodation = 0
          /\ Scored /\ staff > 0 =>
                 /\ scores.accommodation = StaffPointsUpTo(groups, Len(groups)) \div staff
                 /\ scores.accommodation \in 5..15

\* C17 witness: a run scored two groups of different classes and sizes whose
\* weighted average is not a whole number.
C17_Witness ==
    LET groups == campaign_data.StaffGroups
    IN  /\ Scored /\ Len(groups) = 2
        /\ groups[1].Accommodation # groups[2].Accommodation
        /\ groups[1].StaffCount # groups[2].StaffCount
        /\ StaffPointsUpTo(groups, 2) % StaffUpTo(groups, 2) # 0
        /\ scores.accommodation * StaffUpTo(groups, 2) < StaffPointsUpTo(groups, 2)

---------------------------------------------------------------------------
\* Scoring runs over the answers of the campaign form: every percentage of
\* local vendors under empty checklists, and every pair of checklists under
\* the initial percentage, for the initial travel group of app.py and ai.py
\* (15 staff, 870 km by air, 4-star; "Air" and "Air - Economy" are the names
\* the tables give the economy air factor) and the initial brochures.

AnswerGroups ==
    { <<>>,
      <<Group(15, 8700, "Air", "4-star")>>,
      <<Group(15, 8700, "Air - Economy", "4-star")>> }

AnswerMaterials == { <<>>, <<Material("Brochures", 2000, 0, FALSE)>> }

Checklists == [1..5 -> BOOLEAN]

FormAnswers ==
    { <<p, NoChecks, NoChecks>> : p \in 0..100 }
        \cup { <<70, g, o>> : g \in Checklists, o \in Checklists }

AnswerSnapshots ==
    { [StaffGroups |-> g, Materials |-> m, LocalVendorPct |-> a[1],
       governance_checks |-> a[2], operations_checks |-> a[3]] :
          g \in AnswerGroups, m \in AnswerMaterials, a \in FormAnswers }

InitAnswers ==
    /\ variant \in Variants
    /\ campaign_data \in AnswerSnapshots
    /\ fp_carbon_up \in (IF CarbonTie(variant, campaign_data) THEN BOOLEAN ELSE {FALSE})
    /\ fp_rate_up \in (IF RateTie(variant, campaign_data) THEN BOOLEAN ELSE {FALSE})
    /\ pc = "start"
    /\ error = ""
    /\ total_carbon = 0
    /\ material_metrics = NoMetrics
    /\ scores = NoScores
    /\ total_score = 0
    /\ SessionAtRest

SpecAnswers == InitAnswers /\ [][Next]_vars

\* round(x) with a half rounded up, for x = num / den >= 0.
RoundHalfUp(num, den) == (2 * num + den) \div (2 * den)

\* C16: for every whole percentage p in 0..100 the local vendor sub-score is
\* min(15, round(p / 100 x 15)) with a half rounded up, so that 70 gives 11
\* and 30 gives 5; the sub-score lies in 0..15.
C16_LocalScoreHalfUp ==
    Scored =>
        /\ scores.local = Min(15, RoundHalfUp(campaign_data.LocalVendorPct * 15, 100))
        /\ (campaign_data.LocalVendorPct = 70 => scores.local = 11)
        /\ (campaign_data.LocalVendorPct = 30 => scores.local = 5)
        /\ scores.local \in 0..15

---------------------------------------------------------------------------
\* The number of true entries of a checklist.
TrueCount(checks) == Cardinality({ i \in DOMAIN checks : checks[i] })

\* C18: for checklists of five booleans the Governance score is 4 x the number
\* of true entries of governanceChecks and the Operations score is 2 x the
\* number of true entries of operationsChecks, whatever the other fields of
\* the snapshot hold.
C18_ChecklistScores ==
    Scored =>
        /\ scores.Governance = 4 * TrueCount(campaign_data.governance_checks)
        /\ scores.Operations = 2 * TrueCount(campaign_data.operations_checks)

\* C18 witness: a run scored checklists whose true entries are not the
\* leading ones and differ between the two lists, next to a travel group and
\* a material.
C18_Witness ==
    /\ Scored
    /\ campaign_data.governance_checks = <<FALSE, TRUE, FALSE, TRUE, TRUE>>
    /\ campaign_data.operations_checks = <<TRUE, FALSE, FALSE, FALSE, TRUE>>
    /\ campaign_data.StaffGroups # <<>> /\ campaign_data.Materials # <<>>
    /\ scores.Governance = 12 /\ scores.Operations = 4

---------------------------------------------------------------------------
\* The end-to-end example: one travel group of 15 staff, 870 km, under the
\* mode the variant's table gives the economy air factor 0.25, 4-star; 2000
\* brochures; 70% of local vendors; the ten checks false.
IsExample(v, data) ==
    /\ Len(data.StaffGroups) = 1
    /\ data.StaffGroups[1].StaffCount = 15
    /\ data.StaffGroups[1].Distance10 = 8700
    /\ data.StaffGroups[1].TravelMode \in DOMAIN FactorTable(v)
    /\ FactorTable(v)[data.StaffGroups[1].TravelMode] = 25
    /\ data.StaffGroups[1].Accommodation = "4-star"
    /\ data.Materials = <<Material("Brochures", 2000, 0, FALSE)>>
    /\ data.LocalVendorPct = 70
    /\ data.governance_checks = NoChecks
    /\ data.operations_checks = NoChecks

\* C19: for the end-to-end example the engine yields emissions of 3262.5 kg,
\* travel sub-score 8, material score 15, Environmental 23, accommodation
\* sub-score 10, Social 21 (or 20), Governance 0, Operations 0 and a total
\* score of 44 or 45.
C19_EndToEndExample ==
    IsExample(variant, campaign_data) =>
        /\ pc # "failed"
        /\ CarbonReturned => total_carbon = 3262500
        /\ Scored =>
             /\ scores.travel = 8
             /\ scores.material = 15
             /\ scores.Environmental = 23
             /\ scores.accommodation = 10
             /\ scores.Social \in {20, 21}
             /\ scores.Governance = 0
             /\ scores.Operations = 0
        /\ pc = "done" => total_score \in {44, 45}

---------------------------------------------------------------------------
\* Repeated scoring.  Streamlit runs the script again on every interaction,
\* and the dashboard then computes the scores again from the campaign the
\* session holds; what the previous run computed stays on the page until the
\* new run replaces it.
Rerun ==
    /\ pc \in {"done", "failed"}
    /\ pc' = "start"
    /\ UNCHANGED <<variant, campaign_data, fp_carbon_up, fp_rate_up,
                   error, total_carbon, material_metrics, scores, total_score>>
    /\ UNCHANGED <<form_vars, chat_vars>>

NextRerun ==
    \/ CalculateTotalCarbon
    \/ CalculateMaterialMetrics
    \/ CalculateScores
    \/ TotalScore
    \/ Rerun

SpecRerun == InitMaterials /\ [][NextRerun]_vars

\* Some run has ended before: it left its total score (at least 8, the lowest
\* travel sub-score) or its error.
RanBefore == total_score > 0 \/ error # ""

----------------------------------------------------------------------------
\* C22: travel score against the carbon total

\* Carbon totals, in thousandths of a kilogram, to compare a run's total with:
\* the band limits, and a total inside each band and each interval between
\* two bands.
ComparisonTotals ==
    {0, 250000, 499000, 500000, 500500, 501000, 600000, 1000000, 1000500,
     1001000, 1200000, 1500000, 1500500, 1501000, 1700000, 2000000, 2000500,
     2001000, 2500000}

\* C22: the travel sub-score never rises with the carbon total.  Of the total
\* a run scored and any other total, the larger one scores at most what the
\* smaller one scores.
C22_TravelScoreNonIncreasing ==
    Scored =>
        \A c \in ComparisonTotals :
            /\ c >= total_carbon => travel_score(c) <= scores.travel
            /\ c <= total_carbon => travel_score(c) >= scores.travel

----------------------------------------------------------------------------
\* C23: the three variants on one snapshot

\* A snapshot every variant takes for valid: modes every factor table holds
\* and materials of the shared definitions or custom ones.
CommonModes ==
    DOMAIN EMISSION_FACTORS_app \cap DOMAIN EMISSION_FACTORS_ai
        \cap DOMAIN EMISSION_FACTORS_chat

CommonSnapshot(data) ==
    /\ \A v \in Variants : ValidSnapshot(v, data)
    /\ \A i \in DOMAIN data.StaffGroups :
           data.StaffGroups[i].TravelMode \in CommonModes

\* C23: on a snapshot valid for all three, app.py, ai.py and chatrobot.py
\* return the same four pillar scores, whichever way the roundings of ai.py
\* and chatrobot.py fall on a tie.
C23_VariantsAgree ==
    pc = "scores" /\ CommonSnapshot(campaign_data) =>
        \A cu \in {up \in BOOLEAN : up => CarbonTie("ai", campaign_data)} :
        \A ru \in {up \in BOOLEAN : up => RateTie("ai", campaign_data)} :
            /\ ScoresOf("app", campaign_data, cu, ru)
                 = ScoresOf("ai", campaign_data, cu, ru)
            /\ ScoresOf("ai", campaign_data, cu, ru)
                 = ScoresOf("chat", campaign_data, cu, ru)

----------------------------------------------------------------------------
\* The chat flow of chatrobot.py
\*
\* A message is its role and the kind of its content.  What an extraction
\* helper returns is the run's input: a JSON value of the shape its prompt
\* asks for, where "Missing = null" lets a field be null.  A field that may be
\* null is Null or Some(value).  report_text is the sequence of what the
\* report shows, the empty sequence for the empty string.

\* Longest conversation, in messages.
MaxMessages == 14

\* Longest array an extraction helper returns.
MaxReplyItems == 2

Null == <<>>
Some(v) == <<v>>

Msg(role, content) == [role |-> role, content |-> content]

ChatInitialData ==
    [CampaignName |-> "", Duration |-> 0, StaffGroups |-> <<>>, Materials |-> <<>>,
     LocalVendorPct |-> 0, governance_checks |-> NoChecks,
     operations_checks |-> NoChecks]

\* Python's truth of a text and of a number that may be null: null, "" and 0
\* are false.
TruthyText(x) == x # Null /\ x[1] # ""
TruthyNumber(x) == x # Null /\ x[1] # 0

\* extract_campaign_details: {} without the AI client, else the JSON object
\* of the reply; durations and percentages are whole numbers.
NoDetails == [name |-> Null, duration |-> Null, local_vendor_pct |-> Null]

CampaignDetails(available) ==
    IF available
    THEN [name : {Null, Some("Expo")}, duration : {Null, Some(2)},
          local_vendor_pct : {Null, Some(0), Some(70), Some(100), Some(150)}]
    ELSE {NoDetails}

\* Step 1 of process_step on the extracted details: each field is written as
\* soon as it is found good, and the step is accepted when none is missing.
campaign_step(data, details) ==
    LET named == IF TruthyText(details.name)
                 THEN [data EXCEPT !.CampaignName = details.name[1]]
                 ELSE data
        timed == IF TruthyNumber(details.duration)
                 THEN [named EXCEPT !.Duration = details.duration[1]]
                 ELSE named
        pct_ok == /\ TruthyNumber(details.local_vendor_pct)
                  /\ 0 <= details.local_vendor_pct[1]
                  /\ details.local_vendor_pct[1] <= 100
        sourced == IF pct_ok
                   THEN [timed EXCEPT !.LocalVendorPct = details.local_vendor_pct[1]]
                   ELSE timed
    IN  [data |-> sourced,
         accepted |-> /\ TruthyText(details.name)
                      /\ TruthyNumber(details.duration)
                      /\ pct_ok]

\* One object of the array extract_travel_details returns: whether it has the
\* five required keys, and its fields; estimated is what estimate_distance
\* returns for its two locations.
TravelGroup(keys, staff, dist10, est10, mode, acc) ==
    [has_keys |-> keys, staff_count |-> staff, distance_km |-> dist10,
     estimated |-> est10, travel_mode |-> mode, accommodation |-> acc]

\* A complete group; a group of no staff; one without a key; one whose staff
\* count is null; one whose distance is estimated; one whose distance cannot
\* be estimated.
TravelCases ==
    { TravelGroup(TRUE, Some(3), Some(1200), Null, "Train", "Budget"),
      TravelGroup(TRUE, Some(0), Some(1200), Null, "Car", "3-star"),
      TravelGroup(FALSE, Some(3), Some(1200), Null, "Train", "Budget"),
      TravelGroup(TRUE, Null, Some(1200), Null, "Train", "Budget"),
      TravelGroup(TRUE, Some(15), Null, Some(8700), "Air - Economy", "4-star"),
      TravelGroup(TRUE, Some(3), Null, Null, "Train", "Budget") }

TravelReplies(available) ==
    IF available THEN SeqsUpTo(TravelCases, MaxReplyItems) ELSE {<<>>}

\* The loop of step 2: a group without a key or without a distance is left
\* out; int() of a null staff count raises.
RECURSIVE travel_loop(_, _)
travel_loop(travel_groups, valid_groups) ==
    IF travel_groups = <<>> THEN Ok(valid_groups)
    ELSE LET group == Head(travel_groups)
             given == TruthyNumber(group.distance_km) /\ group.distance_km[1] > 0
             estimated == TruthyNumber(group.estimated) /\ group.estimated[1] > 0
             distance == IF given THEN group.distance_km[1] ELSE group.estimated[1]
         IN  IF ~group.has_keys THEN travel_loop(Tail(travel_groups), valid_groups)
             ELSE IF ~given /\ ~estimated
             THEN travel_loop(Tail(travel_groups), valid_groups)
             ELSE IF group.staff_count = Null THEN Raise("TypeError")
             ELSE travel_loop(Tail(travel_groups),
                      Append(valid_groups,
                          Group(group.staff_count[1], distance,
                                group.travel_mode, group.accommodation)))

\* One object of the array extract_material_details returns.
MaterialItem(keys, type, qty) ==
    [has_keys |-> keys, type |-> type, quantity |-> qty]

MaterialItems ==
    { MaterialItem(TRUE, "Brochures", Some(2000)),
      MaterialItem(TRUE, "Other (Custom)", Some(250)),
      MaterialItem(FALSE, "Brochures", Some(2000)),
      MaterialItem(TRUE, "Flyers", Null) }

MaterialReplies(available) ==
    IF available THEN SeqsUpTo(MaterialItems, MaxReplyItems) ELSE {<<>>}

\* The loop of step 3: an object without "type" or "quantity" is left out, a
\* custom material gets weight 5 and is not recyclable; int() of a null
\* quantity raises.
RECURSIVE chat_material_loop(_, _)
chat_material_loop(materials, valid_materials) ==
    IF materials = <<>> THEN Ok(valid_materials)
    ELSE LET mat == Head(materials)
         IN  IF ~mat.has_keys THEN chat_material_loop(Tail(materials), valid_materials)
             ELSE IF mat.quantity = Null THEN Raise("TypeError")
             ELSE chat_material_loop(Tail(materials),
                      Append(valid_materials,
                          IF mat.type = "Other (Custom)"
                          THEN Material(mat.type, mat.quantity[1], 5, FALSE)
                          ELSE Material(mat.type, mat.quantity[1], 0, FALSE)))

\* extract_checks: [False]*5 without the AI client, else the JSON array of
\* booleans of the reply, of the five answers or of fewer.
ChecksReplies(available) ==
    IF available
    THEN {NoChecks, SomeChecks, AllChecks, <<TRUE, TRUE, TRUE, TRUE>>}
    ELSE {NoChecks}

\* generate_report: what the report is built from, or the exception of one of
\* the three calculations.
report(data, available, carbon_up, rate_up) ==
    LET carbon == chat_calculate_total_carbon_emission(data.StaffGroups, carbon_up)
        metrics == chat_calculate_material_metrics(data.Materials, rate_up)
        pillars == chat_calculate_sustainability_scores(data, carbon_up, rate_up)
    IN  IF carbon.err # "" THEN Raise(carbon.err)
        ELSE IF metrics.err # "" THEN Raise(metrics.err)
        ELSE IF pillars.err # "" THEN Raise(pillars.err)
        ELSE Ok(<<data.CampaignName, carbon.val, SumScores(pillars.val),
                  IF available THEN "AI recommendations"
                  ELSE "built-in recommendations">>)

----------------------------------------------------------------------------
\* The chat session: one action per script run that changes the session state

InitChat ==
    /\ variant = "chat"
    /\ campaign_data = ChatInitialData
    /\ fp_carbon_up = FALSE
    /\ fp_rate_up = FALSE
    /\ pc = "start"
    /\ error = ""
    /\ total_carbon = 0
    /\ material_metrics = NoMetrics
    /\ scores = NoScores
    /\ total_score = 0
    /\ staff_group_count = 0
    /\ material_count = 0
    /\ OPENAI_AVAILABLE \in BOOLEAN
    /\ current_step = 0
    /\ waiting_for_input = TRUE
    /\ conversation = <<>>
    /\ report_text = <<>>

\* What no chat action writes.
outside_chat ==
    <<variant, fp_carbon_up, fp_rate_up, pc, error, total_carbon,
      material_metrics, scores, total_score, form_vars, OPENAI_AVAILABLE>>

\* The first script run: the conversation is empty.
StartConversation ==
    /\ variant = "chat"
    /\ conversation = <<>>
    /\ conversation' = Append(conversation, Msg("assistant", "welcome"))
    /\ current_step' = 1
    /\ waiting_for_input' = TRUE
    /\ UNCHANGED <<campaign_data, report_text, outside_chat>>

\* A later script run shows the chat input while the flow waits for an answer,
\* and hands the answer to process_step with the current step.  More messages
\* than MaxMessages are not followed.
Answering(step) ==
    /\ variant = "chat"
    /\ conversation # <<>>
    /\ waiting_for_input /\ current_step < 6
    /\ current_step = step
    /\ Len(conversation) + 3 <= MaxMessages

UserMsg == Msg("user", "answer")

\* process_step that raised: the user message is all it wrote.
Raised ==
    /\ conversation' = Append(conversation, UserMsg)
    /\ UNCHANGED <<campaign_data, current_step, waiting_for_input, report_text>>

ProcessStep1 ==
    /\ Answering(1)
    /\ \E details \in CampaignDetails(OPENAI_AVAILABLE) :
           LET r == campaign_step(campaign_data, details)
           IN  /\ campaign_data' = r.data
               /\ current_step' = IF r.accepted THEN 2 ELSE current_step
               /\ conversation' = conversation \o
                      <<UserMsg, Msg("assistant", IF r.accepted THEN "step 2"
                                                  ELSE "please provide")>>
    /\ UNCHANGED <<waiting_for_input, report_text, outside_chat>>

ProcessStep2 ==
    /\ Answering(2)
    /\ \E travel_groups \in TravelReplies(OPENAI_AVAILABLE) :
           LET r == travel_loop(travel_groups, <<>>)
           IN  IF r.err # "" THEN Raised
               ELSE IF r.val # <<>>
               THEN /\ campaign_data' = [campaign_data EXCEPT !.StaffGroups = r.val]
                    /\ current_step' = 3
                    /\ conversation' = conversation \o
                           <<UserMsg, Msg("assistant", "step 3")>>
                    /\ UNCHANGED <<waiting_for_input, report_text>>
               ELSE /\ conversation' = conversation \o
                           <<UserMsg, Msg("assistant", "please re-enter travel")>>
                    /\ UNCHANGED <<campaign_data, current_step, waiting_for_input,
                                   report_text>>
    /\ UNCHANGED outside_chat

\* Step 3 whose accepted answer goes on to the operations checklist.
ProcessStep3Skipping ==
    /\ Answering(3)
    /\ \E materials \in MaterialReplies(OPENAI_AVAILABLE) :
           LET r == chat_material_loop(materials, <<>>)
           IN  IF r.err # "" THEN Raised
               ELSE IF r.val # <<>>
               THEN /\ campaign_data' = [campaign_data EXCEPT !.Materials = r.val]
                    /\ current_step' = 5
                    /\ conversation' = conversation \o
                           <<UserMsg, Msg("assistant", "step 4")>>
                    /\ UNCHANGED <<waiting_for_input, report_text>>
               ELSE /\ conversation' = conversation \o
                           <<UserMsg, Msg("assistant", "please list materials")>>
                    /\ UNCHANGED <<campaign_data, current_step, waiting_for_input,
                                   report_text>>
    /\ UNCHANGED outside_chat

ProcessStep3 ==
    /\ Answering(3)
    /\ \E materials \in MaterialReplies(OPENAI_AVAILABLE) :
           LET r == chat_material_loop(materials, <<>>)
           IN  IF r.err # "" THEN Raised
               ELSE IF r.val # <<>>
               THEN /\ campaign_data' = [campaign_data EXCEPT !.Materials = r.val]
                    /\ current_step' = 4
                    /\ conversation' = conversation \o
                           <<UserMsg, Msg("assistant", "step 4")>>
                    /\ UNCHANGED <<waiting_for_input, report_text>>
               ELSE /\ conversation' = conversation \o
                           <<UserMsg, Msg("assistant", "please list materials")>>
                    /\ UNCHANGED <<campaign_data, current_step, waiting_for_input,
                                   report_text>>
    /\ UNCHANGED outside_chat

ProcessStep4 ==
    /\ Answering(4)
    /\ \E checks \in ChecksReplies(OPENAI_AVAILABLE) :
           IF Len(checks) = 5
           THEN /\ campaign_data' = [campaign_data EXCEPT !.governance_checks = checks]
                /\ current_step' = 5
                /\ conversation' = conversation \o
                       <<UserMsg, Msg("assistant", "step 5")>>
           ELSE /\ conversation' = conversation \o
                       <<UserMsg, Msg("assistant", "please answer governance")>>
                /\ UNCHANGED <<campaign_data, current_step>>
    /\ UNCHANGED <<waiting_for_input, report_text, outside_chat>>

\* Step 5: the accepted answer runs generate_report, which sets report_text
\* and appends the report, before process_step appends its own reply.
ProcessStep5 ==
    /\ Answering(5)
    /\ \E checks \in ChecksReplies(OPENAI_AVAILABLE) :
           IF Len(checks) = 5
           THEN LET data == [campaign_data EXCEPT !.operations_checks = checks]
                IN  /\ campaign_data' = data
                    /\ current_step' = 6
                    /\ waiting_for_input' = FALSE
                    /\ \E carbon_up \in {up \in BOOLEAN : up => CarbonTie("chat", data)},
                          rate_up \in {up \in BOOLEAN : up => RateTie("chat", data)} :
                           LET r == report(data, OPENAI_AVAILABLE, carbon_up, rate_up)
                           IN  IF r.err # ""
                               THEN /\ conversation' = Append(conversation, UserMsg)
                                    /\ UNCHANGED report_text
                               ELSE /\ report_text' = r.val
                                    /\ conversation' = conversation \o
                                           <<UserMsg, Msg("assistant", "report"),
                                             Msg("assistant", "generating")>>
           ELSE /\ conversation' = conversation \o
                       <<UserMsg, Msg("assistant", "please answer operations")>>
                /\ UNCHANGED <<campaign_data, current_step, waiting_for_input,
                               report_text>>
    /\ UNCHANGED outside_chat

\* A follow-up question that is answered with the report once more.
FollowUpRegenerating ==
    /\ variant = "chat"
    /\ conversation # <<>>
    /\ ~(waiting_for_input /\ current_step < 6)
    /\ current_step = 6
    /\ Len(conversation) + 2 <= MaxMessages
    /\ conversation' = conversation \o
           <<Msg("user", "question"), Msg("assistant", "reply")>> \o
           <<Msg("assistant", "report")>>
    /\ UNCHANGED <<campaign_data, current_step, waiting_for_input, report_text,
                   outside_chat>>

\* After the report the chat input takes follow-up questions: the question and
\* the reply of get_ai_response are appended.
FollowUp ==
    /\ variant = "chat"
    /\ conversation # <<>>
    /\ ~(waiting_for_input /\ current_step < 6)
    /\ current_step = 6
    /\ Len(conversation) + 2 <= MaxMessages
    /\ conversation' = conversation \o
           <<Msg("user", "question"), Msg("assistant", "reply")>>
    /\ UNCHANGED <<campaign_data, current_step, waiting_for_input, report_text,
                   outside_chat>>

NextChat ==
    \/ StartConversation
    \/ ProcessStep1
    \/ ProcessStep2
    \/ ProcessStep3
    \/ ProcessStep4
    \/ ProcessStep5
    \/ FollowUp

SpecChat == InitChat /\ [][NextChat]_vars

----------------------------------------------------------------------------
\* C21, C24 to C27, C29, C30: the chat flow

\* C21: every travel group stored in the campaign snapshot has a staff count
\* of at least 1, in every reachable state.
C21_StaffAtLeastOne ==
    \A i \in DOMAIN campaign_data.StaffGroups :
        campaign_data.StaffGroups[i].StaffCount >= 1

\* C24: current_step only takes the values 0 to 6 and every step of the flow
\* leaves it as it is or adds 1 to it: it never decreases and skips no step.
C24_StepByStep ==
    /\ [](current_step \in 0..6)
    /\ [][current_step' = current_step \/ current_step' = current_step + 1]_vars

\* C24 witness: the report was reached through every step, one travel answer
\* having been rejected on the way.
C24_Witness ==
    /\ current_step = 6
    /\ \E i \in DOMAIN conversation :
           conversation[i].content = "please re-enter travel"
    /\ \A c \in {"step 2", "step 3", "step 4", "step 5"} :
           \E i \in DOMAIN conversation : conversation[i].content = c

\* C25: a step that rejects the answer (it leaves current_step where it was)
\* leaves campaign_data unchanged as well.
C25_RejectedWritesNothing ==
    [][ (/\ current_step \in 1..5
         /\ current_step' = current_step
         /\ conversation' # conversation)
        => campaign_data' = campaign_data ]_vars

\* C26: at step 1, extracted details with a name, a numeric duration and a
\* local vendor percentage anywhere from 0 to 100, 0 included, are accepted
\* (the flow moves to step 2) and the percentage is stored.
C26_AcceptsWholeRange ==
    current_step = 1 /\ OPENAI_AVAILABLE =>
        \A details \in CampaignDetails(OPENAI_AVAILABLE) :
            (/\ TruthyText(details.name)
             /\ TruthyNumber(details.duration)
             /\ details.local_vendor_pct # Null
             /\ details.local_vendor_pct[1] \in 0..100)
            => LET r == campaign_step(campaign_data, details)
               IN  /\ r.accepted
                   /\ r.data.LocalVendorPct = details.local_vendor_pct[1]

\* C27: every call of process_step appends the user message and then an
\* assistant reply, and when step 5 is accepted the reply "Generating your
\* sustainability report..." comes before the message that carries the report.
C27_MessageOrder ==
    [][ (current_step \in 1..5 /\ conversation' # conversation) =>
          LET n == Len(conversation)
          IN  /\ Len(conversation') >= n + 2
              /\ SubSeq(conversation', 1, n) = conversation
              /\ conversation'[n + 1].role = "user"
              /\ conversation'[n + 2].role = "assistant"
              /\ current_step' = 6 =>
                   /\ Len(conversation') = n + 3
                   /\ conversation'[n + 2].content = "generating"
                   /\ conversation'[n + 3].content = "report" ]_vars

\* How many messages of the conversation carry the report.
ReportMessages == Cardinality({i \in DOMAIN conversation : conversation[i].content = "report"})

\* C29: waiting_for_input is true exactly when current_step < 6, report_text
\* is non-empty exactly when current_step = 6, and the conversation carries
\* the report once from step 6 on and not before.
C29_ReportFlags ==
    /\ waiting_for_input <=> current_step < 6
    /\ report_text # <<>> <=> current_step = 6
    /\ ReportMessages = IF current_step = 6 THEN 1 ELSE 0

\* C29 witness: the report was generated and a follow-up question answered.
C29_Witness ==
    /\ current_step = 6 /\ ~waiting_for_input /\ report_text # <<>>
    /\ \E i \in DOMAIN conversation : conversation[i].content = "reply"

\* Some answer moves the flow on from the given step.
CanAdvance(step) ==
    CASE step = 1 ->
           \E details \in CampaignDetails(OPENAI_AVAILABLE) :
               campaign_step(campaign_data, details).accepted
      [] step = 2 ->
           \E travel_groups \in TravelReplies(OPENAI_AVAILABLE) :
               LET r == travel_loop(travel_groups, <<>>)
               IN  r.err = "" /\ r.val # <<>>
      [] step = 3 ->
           \E materials \in MaterialReplies(OPENAI_AVAILABLE) :
               LET r == chat_material_loop(materials, <<>>)
               IN  r.err = "" /\ r.val # <<>>
      [] step \in {4, 5} ->
           \E checks \in ChecksReplies(OPENAI_AVAILABLE) : Len(checks) = 5

\* C30: without the AI client the report can still be reached: at each of the
\* steps 1 to 5 some answer moves the flow on to the next step.
C30_ReachableWithoutClient ==
    ~OPENAI_AVAILABLE /\ current_step \in 1..5 => CanAdvance(current_step)

----------------------------------------------------------------------------
\* The sidebar forms of app.py and ai.py
\*
\* Every press of a button reruns the script.  The add and remove buttons
\* change the number of rows the loops display; the Save button stores the
\* lists the loops built in this run from the rows' widgets.  What the user
\* has entered in the widgets is the run's input.

\* Most rows of a kind the form is followed to.
MaxRows == 3

FormVariants == {"app", "ai"}

FormInitialData(v) ==
    IF v = "app"
    THEN [StaffGroups |-> <<Group(15, 8700, "Air", "4-star"),
                            Group(10, 0, "Other", "3-star")>>,
          Materials |-> <<Material("Brochures", 2000, 0, FALSE),
                          Material("Plastic Badges", 300, 0, FALSE)>>,
          LocalVendorPct |-> 70,
          governance_checks |-> NoChecks, operations_checks |-> NoChecks]
    ELSE [StaffGroups |-> <<Group(15, 8700, "Air", "4-star")>>,
          Materials |-> <<Material("Brochures", 2000, 0, FALSE)>>,
          LocalVendorPct |-> 70,
          governance_checks |-> NoChecks, operations_checks |-> NoChecks]

\* The names the material selectbox offers.
material_names == DOMAIN PREDEFINED_MATERIALS \cup {"Other (Custom)"}

\* travel_mode.startswith("Air -"), over the options of ai.py's selectbox.
StartsWithAir(mode) ==
    mode \in {"Air - Economy", "Air - Premium Economy", "Air - Business",
              "Air - First Class"}

\* What a group row's widgets may hold: the staff count is at least 1, the
\* distance at least 0, mode and accommodation are options of the selectboxes.
GroupRows(v) ==
    IF v = "app"
    THEN {Group(15, 8700, "Air", "4-star"), Group(5, 1000, "Car", "3-star")}
    ELSE {Group(15, 8700, "Air - Economy", "4-star"), Group(5, 1000, "Car", "3-star")}

\* What a material row's widgets may hold: a predefined material, or a custom
\* one with its weight slider and recyclable checkbox.
MaterialRows ==
    {Material("Brochures", 1000, 0, FALSE), Material("Other (Custom)", 100, 3, TRUE)}

\* The remaining widgets: <<% local vendors, governance, operations>>.
OtherWidgets == {<<70, NoChecks, NoChecks>>, <<0, SomeChecks, AllChecks>>}

\* app.py computes the index of a displayed row's stored material type in the
\* selectbox's names: a stored type that is none of them raises ValueError and
\* ends the run before the Save button.  ai.py falls back to index 0.
FormRaises(v, data, rows) ==
    /\ v = "app"
    /\ \E i \in 1..Min(rows, Len(data.Materials)) :
           data.Materials[i].type \notin material_names

\* The list of groups the run has built when it reaches the Save button.
\* app.py appends inside the loop; in ai.py the mode selectbox and the append
\* follow the loop, and the append is under the test for an "Air -" mode.
staff_groups(v, rows) ==
    IF v = "app" THEN rows
    ELSE IF StartsWithAir(rows[Len(rows)].TravelMode) THEN <<rows[Len(rows)]>>
    ELSE <<>>

\* The list of materials the run has built.  In ai.py the test of the type
\* follows the loop and only its else branch appends, with the custom fields
\* at their defaults.
materials(v, rows) ==
    IF v = "app" THEN rows
    ELSE IF rows[Len(rows)].type = "Other (Custom)" THEN <<>>
    ELSE <<Material(rows[Len(rows)].type, rows[Len(rows)].quantity, 0, FALSE)>>

InitForm ==
    /\ variant \in FormVariants
    /\ campaign_data = FormInitialData(variant)
    /\ fp_carbon_up = FALSE
    /\ fp_rate_up = FALSE
    /\ pc = "start"
    /\ error = ""
    /\ total_carbon = 0
    /\ material_metrics = NoMetrics
    /\ scores = NoScores
    /\ total_score = 0
    /\ SessionAtRest

\* What no form action writes.
outside_form ==
    <<variant, fp_carbon_up, fp_rate_up, pc, error, total_carbon,
      material_metrics, scores, total_score, chat_vars>>

\* update_staff_count("add"); more rows than MaxRows are not followed.
AddStaffGroup ==
    /\ variant \in FormVariants
    /\ staff_group_count < MaxRows
    /\ staff_group_count' = staff_group_count + 1
    /\ UNCHANGED <<campaign_data, material_count, outside_form>>

\* update_staff_count("remove"): the last row stays.
RemoveStaffGroup ==
    /\ variant \in FormVariants
    /\ staff_group_count' =
           IF staff_group_count > 1 THEN staff_group_count - 1 ELSE staff_group_count
    /\ UNCHANGED <<campaign_data, material_count, outside_form>>

AddMaterial ==
    /\ variant \in FormVariants
    /\ material_count < MaxRows
    /\ material_count' = material_count + 1
    /\ UNCHANGED <<campaign_data, staff_group_count, outside_form>>

RemoveMaterial ==
    /\ variant \in FormVariants
    /\ material_count' =
           IF material_count > 1 THEN material_count - 1 ELSE material_count
    /\ UNCHANGED <<campaign_data, staff_group_count, outside_form>>

\* The run in which the Save button is pressed.
Save ==
    /\ variant \in FormVariants
    /\ ~FormRaises(variant, campaign_data, material_count)
    /\ \E group_rows \in [1..staff_group_count -> GroupRows(variant)],
          material_rows \in [1..material_count -> MaterialRows],
          w \in OtherWidgets :
           campaign_data' =
               [StaffGroups |-> staff_groups(variant, group_rows),
                Materials |-> materials(variant, material_rows),
                LocalVendorPct |-> w[1],
                governance_checks |-> w[2],
                operations_checks |-> w[3]]
    /\ UNCHANGED <<form_vars, outside_form>>

NextForm ==
    \/ AddStaffGroup
    \/ RemoveStaffGroup
    \/ AddMaterial
    \/ RemoveMaterial
    \/ Save

SpecForm == InitForm /\ [][NextForm]_vars

\* C28: a press of Save stores one travel group per displayed group and one
\* material per displayed material: whenever the stored snapshot changes, its
\* two lists are as long as staff_group_count and material_count say.
C28_SavedRowsMatchCounts ==
    [][ campaign_data' # campaign_data =>
          /\ Len(campaign_data'.StaffGroups) = staff_group_count'
          /\ Len(campaign_data'.Materials) = material_count' ]_vars

====
